---- MODULE Spec2Model ----
(***************************************************************************)
(* FajarClaw RAG model servers: the embedding server                       *)
(* (python/embedding_server.py), the reranker server                       *)
(* (python/reranker_server.py, whose request/response half is              *)
(* Request/Response) and the visual embedding server                       *)
(* (scripts/visual-embed-server.py).                                       *)
(*                                                                         *)
(* Each server is its own process with its own module globals, so one      *)
(* behaviour of this module is the life of ONE process: Init picks the     *)
(* service, and only that service's functions act.  Every function of the  *)
(* module is an action (load_model, the endpoints); the handlers are       *)
(* callable in every load state, as the lazy load inside /embed and        *)
(* /rerank provides for.  The model libraries (FlagEmbedding,              *)
(* transformers, torch, PIL) are outside the repository: what they return, *)
(* and whether they raise, is an input of the action.                      *)
(***************************************************************************)
EXTENDS Integers, Sequences, FiniteSets, TLC

\* ---------------------------------------------------------------- bounds
\* load_model invocations that reach the libraries, per process, in Spec
MaxAcq == 2
\* the same in SpecReq, where the requests take their full input sets
MaxAcqReq == 1
\* texts of an enumerated /embed request (plus the two at the 256 limit)
MaxLen == 2
\* candidates of an enumerated /rerank request (plus one just over the limit)
MaxCand == 3
\* texts / candidates of the requests Spec sends
ProbeLen == 1

\* ------------------------------------------------------ program constants
Services == {"embedding", "reranker", "visual"}
\* embed: len(request.texts) > 256
MAX_TEXTS == 256
\* RerankRequest.candidates: max_length=100
MAX_CANDIDATES == 100
\* RerankRequest.top_k: ge=1, le=100, default=5
TOP_K_MIN == 1
TOP_K_MAX == 100
TOP_K_DEFAULT == 5
\* visual-embed-server: EMBED_DIM
EMBED_DIM == 2048
\* embed_image_impl: pixels[:16]
MAX_PIXELS == 16

\* `None` of the module globals _model / model, and of tokenizer
NoModel == [id |-> 0, on |-> "none"]
NoTokenizer == 0

VARIABLES
    svc,            \* which server this process is
    USE_GPU,        \* *_USE_GPU environment flag, read at import
    cuda_available, \* torch.cuda.is_available() right now
    hidden_size,    \* visual: hidden size of the model at MODEL_PATH (0 elsewhere)
    model,          \* global _model / model: NoModel or [id, on]
    tokenizer,      \* global tokenizer (reranker, visual): 0 or its id
    device,         \* global _device / device
    nacq,           \* history: load_model invocations that went to the libraries
    attempts,       \* history: device configurations tried by the last load_model
    outcome,        \* history: how the last load_model ended
    loaded,         \* history: some load_model invocation has returned normally
    op,             \* history: the function invoked last
    req,            \* history: the request it was given
    calls,          \* history: the calls it made into the model, in order
    resp            \* history: what it returned / raised

vars == <<svc, USE_GPU, cuda_available, hidden_size, model, tokenizer, device, nacq,
          attempts, outcome, loaded, op, req, calls, resp>>

globals == <<model, tokenizer, device, nacq, attempts, outcome, loaded>>
config == <<svc, USE_GPU, hidden_size>>

\* ------------------------------------------------------------ load_model

\* embedding load_model with a first failure fatal at once (no CPU fallback)
load_model_embedding_NoFallback(m, d, useGpu, id, f1, f2) ==
    IF m # NoModel
    THEN [model |-> m, device |-> d, attempts |-> <<>>, outcome |-> "cached"]
    ELSE LET first == IF useGpu THEN "cuda" ELSE "cpu" IN
         IF ~f1
         THEN [model |-> [id |-> id, on |-> first], device |-> first,
               attempts |-> <<first>>, outcome |-> "loaded"]
         ELSE [model |-> m, device |-> d,
               attempts |-> <<first>>, outcome |-> "fatal"]

\* embedding load_model without the `if _model is not None` guard
load_model_embedding_NoGuard(m, d, useGpu, id, f1, f2) ==
    LET first == IF useGpu THEN "cuda" ELSE "cpu" IN
    IF ~f1
    THEN [model |-> [id |-> id, on |-> first], device |-> first,
          attempts |-> <<first>>, outcome |-> "loaded"]
    ELSE IF ~f2
    THEN [model |-> [id |-> id, on |-> "cpu"], device |-> "cpu",
          attempts |-> <<first, "cpu">>, outcome |-> "loaded"]
    ELSE [model |-> m, device |-> d,
          attempts |-> <<first, "cpu">>, outcome |-> "fatal"]

\* embedding_server.load_model: m, d are the globals _model, _device; f1 says
\* the constructor in the try block raises, f2 that the one in the except
\* block raises; id names the object a constructor returns.
load_model_embedding(m, d, useGpu, id, f1, f2) ==
    IF m # NoModel
    THEN [model |-> m, device |-> d, attempts |-> <<>>, outcome |-> "cached"]
    ELSE LET first == IF useGpu THEN "cuda" ELSE "cpu" IN
         IF ~f1
         THEN [model |-> [id |-> id, on |-> first], device |-> first,
               attempts |-> <<first>>, outcome |-> "loaded"]
         ELSE IF ~f2
         THEN [model |-> [id |-> id, on |-> "cpu"], device |-> "cpu",
               attempts |-> <<first, "cpu">>, outcome |-> "loaded"]
         ELSE [model |-> m, device |-> d,
               attempts |-> <<first, "cpu">>, outcome |-> "fatal"]

\* the statement of reranker_server.load_model that raises, if any
RerankerFailSteps ==
    {"none", "import", "tokenizer", "from_pretrained", "to_device", "eval"}

\* reranker_server.load_model: no guard and no try/except; the globals are
\* assigned as the statements run, so a raise leaves the earlier ones assigned.
load_model_reranker(m, t, d, useGpu, cuda, id, failStep) ==
    LET dev == IF useGpu /\ cuda THEN "cuda" ELSE "cpu" IN
    CASE failStep = "import" ->
           [model |-> m, tokenizer |-> t, device |-> d,
            attempts |-> <<>>, outcome |-> "fatal"]
      [] failStep = "tokenizer" ->
           [model |-> m, tokenizer |-> t, device |-> dev,
            attempts |-> <<dev>>, outcome |-> "fatal"]
      [] failStep = "from_pretrained" ->
           [model |-> m, tokenizer |-> id, device |-> dev,
            attempts |-> <<dev>>, outcome |-> "fatal"]
      [] failStep = "to_device" ->
           [model |-> [id |-> id, on |-> "unplaced"], tokenizer |-> id,
            device |-> dev, attempts |-> <<dev>>, outcome |-> "fatal"]
      [] failStep = "eval" ->
           [model |-> [id |-> id, on |-> dev], tokenizer |-> id,
            device |-> dev, attempts |-> <<dev>>, outcome |-> "fatal"]
      [] OTHER ->
           [model |-> [id |-> id, on |-> dev], tokenizer |-> id,
            device |-> dev, attempts |-> <<dev>>, outcome |-> "loaded"]

\* the statement of visual-embed-server.load_model that raises, if any: the
\* print of line 71, the tokenizer, the model expression, and after the
\* globals are assigned torch.cuda.memory_allocated() (called on cuda only)
\* and the print of line 89
VisualFailSteps ==
    {"none", "print_start", "tokenizer", "from_pretrained",
     "memory_allocated", "print_loaded"}

\* visual-embed-server.load_model: device from torch.cuda.is_available(), then
\* the tokenizer, then model = from_pretrained(...).to(device).eval() in one
\* assignment, then the report; no guard and no try/except, so a raise leaves
\* the globals assigned so far
load_model_visual(m, t, d, cuda, id, failStep) ==
    LET dev == IF cuda THEN "cuda" ELSE "cpu" IN
    CASE failStep = "print_start" ->
           [model |-> m, tokenizer |-> t, device |-> d,
            attempts |-> <<>>, outcome |-> "fatal"]
      [] failStep = "tokenizer" ->
           [model |-> m, tokenizer |-> t, device |-> dev,
            attempts |-> <<dev>>, outcome |-> "fatal"]
      [] failStep = "from_pretrained" ->
           [model |-> m, tokenizer |-> id, device |-> dev,
            attempts |-> <<dev>>, outcome |-> "fatal"]
      [] failStep = "print_loaded" \/ (failStep = "memory_allocated" /\ dev = "cuda") ->
           [model |-> [id |-> id, on |-> dev], tokenizer |-> id,
            device |-> dev, attempts |-> <<dev>>, outcome |-> "fatal"]
      [] OTHER ->
           [model |-> [id |-> id, on |-> dev], tokenizer |-> id,
            device |-> dev, attempts |-> <<dev>>, outcome |-> "loaded"]

\* the globals and the history after a load_model invocation that ended as r
\* (the embedding server has no tokenizer global)
ApplyLoad(r) ==
    /\ model' = r.model
    /\ device' = r.device
    /\ tokenizer' = IF svc = "embedding" THEN tokenizer ELSE r.tokenizer
    /\ attempts' = r.attempts
    /\ outcome' = r.outcome
    /\ nacq' = IF r.outcome = "cached" THEN nacq ELSE nacq + 1
    /\ loaded' = (loaded \/ r.outcome \in {"loaded", "cached"})

NoReq == [none |-> TRUE]

\* an exception no handler catches: the framework answers 500
Unhandled == [http |-> 500, detail |-> "Internal Server Error"]

\* what a direct load_model() call leaves its caller with
LoadResp(r) == IF r.outcome = "fatal" THEN Unhandled
               ELSE [http |-> 0, detail |-> r.outcome]

\* load_model() of the embedding server, as lifespan() calls it
EmbLoadModel(maxAcq) ==
    /\ svc = "embedding"
    /\ nacq < maxAcq
    /\ \E f1 \in BOOLEAN, f2 \in BOOLEAN :
         LET r == load_model_embedding(model, device, USE_GPU, nacq + 1, f1, f2) IN
         /\ ApplyLoad(r)
         /\ resp' = LoadResp(r)
    /\ op' = "load_model"
    /\ req' = NoReq
    /\ calls' = <<>>
    /\ UNCHANGED <<config, cuda_available>>

\* load_model() of the reranker, as startup() calls it
RrLoadModel(maxAcq) ==
    /\ svc = "reranker"
    /\ nacq < maxAcq
    /\ \E failStep \in RerankerFailSteps :
         LET r == load_model_reranker(model, tokenizer, device, USE_GPU,
                                      cuda_available, nacq + 1, failStep) IN
         /\ ApplyLoad(r)
         /\ resp' = LoadResp(r)
    /\ op' = "load_model"
    /\ req' = NoReq
    /\ calls' = <<>>
    /\ UNCHANGED <<config, cuda_available>>

\* load_model() of the visual server, as __main__ calls it
VisLoadModel(maxAcq) ==
    /\ svc = "visual"
    /\ nacq < maxAcq
    /\ \E failStep \in VisualFailSteps :
         LET r == load_model_visual(model, tokenizer, device, cuda_available,
                                    nacq + 1, failStep) IN
         /\ ApplyLoad(r)
         /\ resp' = LoadResp(r)
    /\ op' = "load_model"
    /\ req' = NoReq
    /\ calls' = <<>>
    /\ UNCHANGED <<config, cuda_available>>

\* --------------------------------------------------------------- /health

\* embedding_server.health
health_embedding(m, d) ==
    [http |-> 200, status |-> IF m # NoModel THEN "ok" ELSE "loading",
     model |-> "MODEL_NAME", device |-> d, ready |-> m # NoModel]

\* reranker health (Request/Response)
health_reranker(m, d) ==
    LET ready == m # NoModel IN
    [http |-> 200, ready |-> ready, model |-> "MODEL_NAME", device |-> d,
     status |-> IF ready THEN "ready" ELSE "model_not_loaded"]

\* visual-embed-server.health: no `ready` field; with the model set and the
\* device cuda it calls torch.cuda.memory_allocated(), and vramFails says that
\* call raises (vram_gb, a measurement, is left out)
health_visual(m, d, vramFails) ==
    IF m = NoModel
    THEN [http |-> 200, status |-> "unhealthy", model |-> "Qwen3-VL-Embedding-2B",
          gpu |-> FALSE, error |-> "Not loaded"]
    ELSE IF d = "cuda" /\ vramFails THEN Unhandled
    ELSE [http |-> 200, status |-> "healthy", model |-> "Qwen3-VL-Embedding-2B",
          gpu |-> (d = "cuda"), dimension |-> EMBED_DIM]

\* GET /health of whichever server this is
Health ==
    /\ \E vramFails \in BOOLEAN :
         resp' = CASE svc = "embedding" -> health_embedding(model, device)
                   [] svc = "reranker" -> health_reranker(model, device)
                   [] OTHER -> health_visual(model, device, vramFails)
    /\ op' = "health"
    /\ req' = NoReq
    /\ calls' = <<>>
    /\ UNCHANGED <<config, cuda_available, globals>>

\* ----------------------------------------------------------- environment

\* the accelerator becomes available or unavailable (the embedding server
\* never asks torch: there it shows only as a constructor raising)
CudaChange ==
    /\ svc # "embedding"
    /\ cuda_available' = ~cuda_available
    /\ op' = "env"
    /\ UNCHANGED <<config, globals, req, calls, resp>>

\* ---------------------------------------------------------------- /embed

Min(a, b) == IF a < b THEN a ELSE b
Max(a, b) == IF a > b THEN a ELSE b

\* what output["lexical_weights"][i] may be: a mapping of the non-zero token
\* weights (what BGEM3FlagModel returns: `items` are its (key, weight) pairs),
\* a dense weight array `w` (index 0 first), or anything else
RawSparse ==
    { [kind |-> "dict",    items |-> {<<7, 3>>}, w |-> <<>>],
      [kind |-> "ndarray", items |-> {},         w |-> <<0, 5, 0>>],
      [kind |-> "ndarray", items |-> {},         w |-> <<4, 0, 6>>],
      [kind |-> "other",   items |-> {},         w |-> <<>>] }

\* the dense vector the model computes for text t (an abstract name for it)
DenseOf(t) == 10 + t

\* the outputs model.encode(texts, return_sparse=rs) may return (raises: it
\* raised instead).  Lists longer than MaxLen get one output.
EncodeOutputs(texts, rs) ==
    LET n == Len(texts)
        dense == [i \in 1..n |-> DenseOf(texts[i])]
        other == CHOOSE x \in RawSparse : x.kind = "other"
        arr == CHOOSE x \in RawSparse : x.kind = "ndarray"
    IN  { [raises |-> TRUE, dense_vecs |-> <<>>, has_lex |-> FALSE,
           lexical_weights |-> <<>>] }
        \cup
        { [raises |-> FALSE, dense_vecs |-> dense, has_lex |-> FALSE,
           lexical_weights |-> [i \in 1..n |-> other]] }
        \cup
        IF ~rs THEN {}
        ELSE IF n > MaxLen
        THEN { [raises |-> FALSE, dense_vecs |-> dense, has_lex |-> TRUE,
                lexical_weights |-> [i \in 1..n |-> arr]] }
        ELSE { [raises |-> FALSE, dense_vecs |-> dense, has_lex |-> TRUE,
                lexical_weights |-> lw] : lw \in [1..n -> RawSparse] }

Null == [null |-> TRUE, items |-> {}]

\* the dense-array branch without the np.nonzero filter
sparse_of_NoFilter(raw) ==
    CASE raw.kind = "dict" -> [null |-> FALSE, items |-> raw.items]
      [] raw.kind = "ndarray" ->
           [null |-> FALSE,
            items |-> { <<i - 1, raw.w[i]>> : i \in 1..Len(raw.w) }]
      [] OTHER -> [null |-> FALSE, items |-> {}]

\* embed, lines 146-152: raw_sparse to a {token_id: weight} dict, given as its
\* set of (key, weight) pairs
sparse_of(raw) ==
    CASE raw.kind = "dict" ->
           [null |-> FALSE, items |-> { <<kv[1], kv[2]>> : kv \in raw.items }]
      [] raw.kind = "ndarray" ->
           [null |-> FALSE,
            items |-> { <<i - 1, raw.w[i]>> :
                          i \in { j \in 1..Len(raw.w) : raw.w[j] # 0 } }]
      [] OTHER -> [null |-> FALSE, items |-> {}]

\* the result loop reading the first output for every text
embed_results_FirstOutput(texts, rs, out) ==
    [i \in 1..Len(texts) |->
       [dense |-> out.dense_vecs[1],
        sparse |-> IF rs /\ out.has_lex
                   THEN sparse_of(out.lexical_weights[1]) ELSE Null]]

\* embed, lines 138-154: one EmbedResult per text, from output i
embed_results(texts, rs, out) ==
    [i \in 1..Len(texts) |->
       [dense |-> out.dense_vecs[i],
        sparse |-> IF rs /\ out.has_lex
                   THEN sparse_of(out.lexical_weights[i]) ELSE Null]]

\* embed after load_model() returned: validation, the encode call, the results.
\* Returns the response and the calls made into the model.
embed_body(texts, rs, out) ==
    IF Len(texts) = 0
    THEN [resp |-> [http |-> 400, detail |-> "texts cannot be empty"],
          calls |-> <<>>]
    ELSE IF Len(texts) > MAX_TEXTS
    THEN [resp |-> [http |-> 400, detail |-> "max 256 texts per request"],
          calls |-> <<>>]
    ELSE LET call == [fn |-> "encode", texts |-> texts, return_sparse |-> rs,
                      out |-> out] IN
         IF out.raises
         THEN [resp |-> [http |-> 500, detail |-> "Encoding failed"],
               calls |-> <<call>>]
         ELSE [resp |-> [http |-> 200, results |-> embed_results(texts, rs, out),
                         model |-> "MODEL_NAME"],
               calls |-> <<call>>]

\* the texts of the requests sent: [1, 2, .., n]
TextsOf(n) == [i \in 1..n |-> i]

\* POST /embed
Embed(maxAcq, lens) ==
    /\ svc = "embedding"
    /\ model # NoModel \/ nacq < maxAcq
    /\ \E n \in lens, rs \in BOOLEAN, f1 \in BOOLEAN, f2 \in BOOLEAN :
         LET texts == TextsOf(n)
             r == load_model_embedding(model, device, USE_GPU, nacq + 1, f1, f2)
         IN  /\ (model # NoModel) => (~f1 /\ ~f2)
             /\ ApplyLoad(r)
             /\ req' = [texts |-> texts, return_sparse |-> rs]
             /\ IF r.outcome = "fatal"
                THEN /\ resp' = Unhandled
                     /\ calls' = <<>>
                ELSE \E out \in EncodeOutputs(texts, rs) :
                       LET b == embed_body(texts, rs, out) IN
                       /\ resp' = b.resp
                       /\ calls' = b.calls
    /\ op' = "embed"
    /\ UNCHANGED <<config, cuda_available>>

\* --------------------------------------------------------------- /rerank

\* the candidates of the requests sent: texts 1..n, every other one with an id
CandidatesOf(n) ==
    [i \in 1..n |-> [text |-> i, id |-> IF i % 2 = 1 THEN i ELSE 0, metadata |-> 0]]

\* relevance scores the forward pass may give (flat[0].item())
ScoreVals == {0, 1}

\* top_k values sent
TopKs == {0, 1, 2, TOP_K_DEFAULT, TOP_K_MAX, TOP_K_MAX + 1}

Reverse(xs) == [i \in 1..Len(xs) |-> xs[Len(xs) + 1 - i]]

\* list.sort's merge step on the key x[1] of an (index, score) pair, here
\* p[2]: two sorted runs into one, an element of the left run ahead of the
\* elements of the right run that have its key
MergeAsc(left, right) ==
    LET posL == [i \in 1..Len(left) |->
                   i + Cardinality({ j \in 1..Len(right) : right[j][2] < left[i][2] })]
        posR == [j \in 1..Len(right) |->
                   j + Cardinality({ i \in 1..Len(left) : left[i][2] <= right[j][2] })]
    IN  [k \in 1..(Len(left) + Len(right)) |->
           IF \E i \in 1..Len(left) : posL[i] = k
           THEN left[CHOOSE i \in 1..Len(left) : posL[i] = k]
           ELSE right[CHOOSE j \in 1..Len(right) : posR[j] = k]]

\* list.sort in ascending order: a stable merge sort
RECURSIVE StableSortAsc(_)
StableSortAsc(xs) ==
    IF Len(xs) <= 1 THEN xs
    ELSE LET h == Len(xs) \div 2 IN
         MergeAsc(StableSortAsc(SubSeq(xs, 1, h)),
                  StableSortAsc(SubSeq(xs, h + 1, Len(xs))))

\* an ascending sort reversed afterwards: equal scores come out in reverse order
sort_by_score_desc_SortThenReverse(xs) == Reverse(StableSortAsc(xs))

\* indexed_scores.sort(key=lambda x: x[1], reverse=True): list.sort reverses
\* the list, sorts it stably in ascending order and reverses the result
sort_by_score_desc(xs) == Reverse(StableSortAsc(Reverse(xs)))

\* a slice one element too long
take_OneMore(xs, k) == SubSeq(xs, 1, Min(k + 1, Len(xs)))

\* xs[:k] for k >= 0
take(xs, k) == SubSeq(xs, 1, Min(k, Len(xs)))

\* rerank, lines 73-86: the ranked list from the scores (scores[i] is the
\* score of candidates[i]; original_index counts from 0)
ranked_of(candidates, scores, top_k) ==
    LET indexed_scores == [i \in 1..Len(scores) |-> <<i - 1, scores[i]>>]
        kept == take(sort_by_score_desc(indexed_scores), top_k)
    IN  [r \in 1..Len(kept) |->
           LET idx == kept[r][1]
               candidate == candidates[idx + 1]
           IN  [text |-> candidate.text, score |-> kept[r][2],
                original_index |-> idx, id |-> candidate.id,
                metadata |-> candidate.metadata]]

\* the forward passes of a request whose pair failAt raises (0: none does),
\* each with the score it gave
forward_calls(query, candidates, scores, failAt) ==
    LET n == IF failAt = 0 THEN Len(candidates) ELSE failAt IN
    [k \in 1..n |-> [fn |-> "forward", query |-> query, text |-> candidates[k].text,
                     raised |-> (k = failAt),
                     score |-> IF k = failAt THEN 0 ELSE scores[k]]]

\* a failed pair dropped, the pairs scored before it ranked and returned
rerank_body_PartialResults(query, candidates, top_k, scores, failAt) ==
    LET n == IF failAt = 0 THEN Len(candidates) ELSE failAt - 1 IN
    [resp |-> [http |-> 200,
               ranked |-> ranked_of(candidates, SubSeq(scores, 1, n), top_k),
               query |-> query, model |-> "MODEL_NAME"],
     calls |-> forward_calls(query, candidates, scores, failAt)]

\* rerank, lines 46-95, once the model is there: score pair after pair, an
\* exception from the tokenizer or the model leaving the handler uncaught
rerank_body(query, candidates, top_k, scores, failAt) ==
    IF failAt # 0
    THEN [resp |-> Unhandled, calls |-> forward_calls(query, candidates, scores, failAt)]
    ELSE [resp |-> [http |-> 200, ranked |-> ranked_of(candidates, scores, top_k),
                    query |-> query, model |-> "MODEL_NAME"],
          calls |-> forward_calls(query, candidates, scores, 0)]

\* RerankRequest: what pydantic lets through
rerank_request_valid(n, top_k) ==
    /\ n <= MAX_CANDIDATES
    /\ top_k >= TOP_K_MIN
    /\ top_k <= TOP_K_MAX

\* the scores drawn for n candidates
ScoresFor(n) == [1..n -> ScoreVals]

\* the pair that raises (0: none)
FailAts(n) == 0..n

\* POST /rerank
Rerank(maxAcq, ns) ==
    /\ svc = "reranker"
    /\ model # NoModel \/ nacq < maxAcq
    /\ \E n \in ns, top_k \in TopKs :
         LET candidates == CandidatesOf(n) IN
         /\ req' = [query |-> 1, candidates |-> candidates, top_k |-> top_k]
         /\ IF ~rerank_request_valid(n, top_k)
            THEN /\ resp' = [http |-> 422, detail |-> "validation error"]
                 /\ calls' = <<>>
                 /\ UNCHANGED globals
            ELSE \E failStep \in RerankerFailSteps :
                   LET r == load_model_reranker(model, tokenizer, device, USE_GPU,
                                                cuda_available, nacq + 1, failStep)
                   IN  /\ (model # NoModel) => (failStep = "none")
                       /\ IF model = NoModel THEN ApplyLoad(r) ELSE UNCHANGED globals
                       /\ IF model = NoModel /\ r.outcome = "fatal"
                          THEN /\ resp' = Unhandled
                               /\ calls' = <<>>
                          ELSE \E failAt \in FailAts(n) :
                               \E scores \in (IF failAt = 0 THEN ScoresFor(n)
                                              ELSE {[i \in 1..n |-> 0]}) :
                                 LET b == rerank_body(1, candidates, top_k, scores, failAt) IN
                                 /\ resp' = b.resp
                                 /\ calls' = b.calls
    /\ op' = "rerank"
    /\ UNCHANGED <<config, cuda_available>>

\* ------------------------------------------------- visual embedding server

\* image payloads sent: base64 that does not decode, bytes that are no image,
\* and images of w x h pixels
Payloads ==
    { [kind |-> "bad_base64", w |-> 0, h |-> 0],
      [kind |-> "not_image", w |-> 0, h |-> 0],
      [kind |-> "image", w |-> 1, h |-> 1],
      [kind |-> "image", w |-> 4, h |-> 2],
      [kind |-> "image", w |-> 7, h |-> 9] }

\* len(range(0, n, max(1, n // 4)))
RangeCount(n) == LET step == Max(1, n \div 4) IN (n + step - 1) \div step

\* embed_image_impl, lines 115-126: the description embedded for an image
description_of(img) ==
    [kind |-> "desc", w |-> img.w, h |-> img.h,
     aspect |-> IF img.w > img.h THEN "landscape"
                ELSE IF img.h > img.w THEN "portrait" ELSE "square",
     pixels |-> Min(MAX_PIXELS, RangeCount(img.h) * RangeCount(img.w))]

\* hidden sizes of the models MODEL_PATH may name (VISUAL_MODEL_PATH,
\* --model-path): that of Qwen3-VL-Embedding-2B and a smaller one
HiddenSizes == {1024, EMBED_DIM}

\* embed_text_impl: one forward pass, mean-pooled and L2-normalised; the list
\* returned is named by the text it is the vector of and has one entry per
\* hidden unit of the loaded model; fwdFails: the tokenizer or the model raises
embed_text_impl(text, hidden, fwdFails) ==
    [raised |-> fwdFails,
     vec |-> [of |-> text, norm |-> 1, len |-> hidden],
     calls |-> <<[fn |-> "forward", text |-> text]>>]

\* EmbedResponse(vector=vec, dimension=len(vec), ...) of the three endpoints,
\* or the exception of embed_text_impl passing through them
EmbedResponse(r) ==
    [resp |-> IF r.raised THEN Unhandled
              ELSE [http |-> 200, vector |-> r.vec, dimension |-> r.vec.len],
     calls |-> r.calls]

NotLoaded == [resp |-> [http |-> 503, detail |-> "Model not loaded"], calls |-> <<>>]
InvalidImage == [resp |-> [http |-> 400, detail |-> "Invalid image"], calls |-> <<>>]

\* /embed-image with the model check after the decoding
embed_image_endpoint_DecodeFirst(m, payload, hidden, fwdFails) ==
    IF payload.kind # "image" THEN InvalidImage
    ELSE IF m = NoModel THEN NotLoaded
    ELSE EmbedResponse(embed_text_impl(description_of(payload), hidden, fwdFails))

\* embed_image_endpoint with embed_image_impl
embed_image_endpoint(m, payload, hidden, fwdFails) ==
    IF m = NoModel THEN NotLoaded
    ELSE IF payload.kind # "image" THEN InvalidImage
    ELSE EmbedResponse(embed_text_impl(description_of(payload), hidden, fwdFails))

\* embed_cross_modal_endpoint
embed_cross_modal_endpoint(m, payload, text, hidden, fwdFails) ==
    IF m = NoModel THEN NotLoaded
    ELSE IF payload.kind # "image" THEN InvalidImage
    ELSE EmbedResponse(embed_text_impl([kind |-> "combined", text |-> text,
                                        w |-> payload.w, h |-> payload.h],
                                       hidden, fwdFails))

\* embed_text_endpoint
embed_text_endpoint(m, text, hidden, fwdFails) ==
    IF m = NoModel THEN NotLoaded
    ELSE EmbedResponse(embed_text_impl([kind |-> "text", text |-> text],
                                       hidden, fwdFails))

\* POST /embed-image
EmbedImage ==
    /\ svc = "visual"
    /\ \E payload \in Payloads, fwdFails \in BOOLEAN :
         LET b == embed_image_endpoint(model, payload, hidden_size, fwdFails) IN
         /\ req' = [image |-> payload]
         /\ resp' = b.resp
         /\ calls' = b.calls
    /\ op' = "embed-image"
    /\ UNCHANGED <<config, cuda_available, globals>>

\* POST /embed-cross-modal
EmbedCrossModal ==
    /\ svc = "visual"
    /\ \E payload \in Payloads, fwdFails \in BOOLEAN :
         LET b == embed_cross_modal_endpoint(model, payload, 1, hidden_size, fwdFails) IN
         /\ req' = [image |-> payload, text |-> 1]
         /\ resp' = b.resp
         /\ calls' = b.calls
    /\ op' = "embed-cross-modal"
    /\ UNCHANGED <<config, cuda_available, globals>>

\* POST /embed-text
EmbedText ==
    /\ svc = "visual"
    /\ \E fwdFails \in BOOLEAN :
         LET b == embed_text_endpoint(model, 1, hidden_size, fwdFails) IN
         /\ req' = [text |-> 1]
         /\ resp' = b.resp
         /\ calls' = b.calls
    /\ op' = "embed-text"
    /\ UNCHANGED <<config, cuda_available, globals>>

\* ---------------------------------------------------------- specification

Init ==
    /\ svc \in Services
    /\ USE_GPU \in (IF svc = "visual" THEN {TRUE} ELSE BOOLEAN)
    /\ cuda_available \in (IF svc = "embedding" THEN {TRUE} ELSE BOOLEAN)
    /\ hidden_size \in (IF svc = "visual" THEN HiddenSizes ELSE {0})
    /\ model = NoModel
    /\ tokenizer = NoTokenizer
    /\ device = IF svc = "visual" THEN "none" ELSE "cpu"
    /\ nacq = 0
    /\ attempts = <<>>
    /\ outcome = "none"
    /\ loaded = FALSE
    /\ op = "init"
    /\ req = NoReq
    /\ calls = <<>>
    /\ resp = [http |-> 0, detail |-> "none"]

EmbedLens == (0..MaxLen) \cup {MAX_TEXTS, MAX_TEXTS + 1}
RerankLens == (0..MaxCand) \cup {MAX_CANDIDATES + 1}

\* every function of the three servers, the requests with the probe inputs
Next ==
    \/ EmbLoadModel(MaxAcq)
    \/ RrLoadModel(MaxAcq)
    \/ VisLoadModel(MaxAcq)
    \/ Health
    \/ CudaChange
    \/ Embed(MaxAcq, 0..ProbeLen)
    \/ Rerank(MaxAcq, 0..ProbeLen)
    \/ EmbedImage
    \/ EmbedCrossModal
    \/ EmbedText

Spec == Init /\ [][Next]_vars

\* the same functions with the accelerator as Init found it, the requests
\* with their full input sets
NextReq ==
    \/ EmbLoadModel(MaxAcqReq)
    \/ RrLoadModel(MaxAcqReq)
    \/ VisLoadModel(MaxAcqReq)
    \/ Health
    \/ Embed(MaxAcqReq, EmbedLens)
    \/ Rerank(MaxAcqReq, RerankLens)
    \/ EmbedImage
    \/ EmbedCrossModal
    \/ EmbedText

SpecReq == Init /\ [][NextReq]_vars

\* ------------------------------------------------------------------ claims

\* C1 as stated: in every service a load that attempted the accelerator and
\* failed goes on to the CPU fallback, so a fatal end always follows a failed
\* CPU attempt
C1_FailedAcceleratedNeverFatal ==
    (outcome = "fatal" /\ attempts # <<>> /\ attempts[1] = "cuda")
        => (Len(attempts) = 2 /\ attempts[2] = "cpu")

\* C1 amended: the embedding server tries its configured device (cuda when
\* USE_GPU, else cpu) and on a failure tries cpu exactly once, a fatal end
\* coming only after that second attempt; the reranker and the visual server
\* pick the device up front and make a single attempt, whose failure is fatal;
\* a load that succeeds records the device the model was placed on
C1_LoaderPaths ==
    /\ svc = "embedding" =>
         LET first == IF USE_GPU THEN "cuda" ELSE "cpu" IN
         /\ outcome = "fatal" => (attempts = <<first, "cpu">> /\ model = NoModel)
         /\ outcome = "loaded" =>
              /\ attempts \in {<<first>>, <<first, "cpu">>}
              /\ device = attempts[Len(attempts)]
              /\ model.on = device
    /\ svc \in {"reranker", "visual"} =>
         /\ Len(attempts) <= 1
         /\ attempts # <<>> => attempts = <<device>>
         /\ outcome = "loaded" => (attempts = <<device>> /\ model.on = device)

\* the embedding server loaded on the CPU after its cuda attempt failed
C1_Witness ==
    /\ svc = "embedding"
    /\ outcome = "loaded"
    /\ attempts = <<"cuda", "cpu">>
    /\ device = "cpu"

\* C2 as stated: once the model handle is set, no invocation of any function
\* changes the model, the tokenizer or the device, or goes to the libraries again
C2_SetAtMostOnce ==
    [][(model # NoModel) =>
         (model' = model /\ tokenizer' = tokenizer /\ device' = device /\ nacq' = nacq)]_vars

\* C2 amended: once the model handle is set, no request (/embed, /rerank,
\* /embed-image, /embed-cross-modal, /embed-text, /health) changes the model,
\* the tokenizer or the device or goes to the libraries again, and neither does
\* load_model of the embedding server; load_model of the reranker and of the
\* visual server, invoked again, loads again
C2_RequestsKeepLoadState ==
    [][(model # NoModel /\ (svc = "embedding" \/ op' # "load_model")) =>
         (model' = model /\ tokenizer' = tokenizer /\ device' = device /\ nacq' = nacq)]_vars

\* /embed served by a model an earlier invocation had loaded
C2_Witness ==
    /\ svc = "embedding"
    /\ op = "embed"
    /\ outcome = "cached"
    /\ resp.http = 200

\* the status with which each service says it is in order ("ok" in the
\* embedding server, "ready" in the reranker, "healthy" in the visual server)
OkStatus == {"ok", "ready", "healthy"}

\* a /health answer saying ready: an ok status, and ready=true where the
\* answer has the field (the visual server's has none)
ReportsReady(r) ==
    /\ "status" \in DOMAIN r
    /\ r.status \in OkStatus
    /\ "ready" \in DOMAIN r => r.ready

\* a /health answer saying not ready (an error answer has no status at all)
ReportsNotReady(r) ==
    "status" \in DOMAIN r =>
        (r.status \notin OkStatus /\ ("ready" \in DOMAIN r => ~r.ready))

\* C3: /health of every service says not ready in every state before a load
\* has completed, a load that raised part-way included, and ready in every
\* state after
C3_HealthReadyIffLoaded ==
    op = "health" =>
        IF loaded THEN ReportsReady(resp) ELSE ReportsNotReady(resp)

\* C4: an /embed request with no texts or more than 256 is answered 400 and
\* makes no encode call, whatever the load state
C4_InvalidEmbedIs400 ==
    (op = "embed" /\ (Len(req.texts) = 0 \/ Len(req.texts) > MAX_TEXTS))
        => (resp.http = 400 /\ calls = <<>>)

\* C5: an /embed request with 1..256 texts whose encode call succeeds makes
\* that one call with the whole list and answers one result per text, result i
\* built from output i
C5_OneResultPerText ==
    (/\ op = "embed"
     /\ Len(req.texts) \in 1..MAX_TEXTS
     /\ calls # <<>>
     /\ ~calls[1].out.raises)
    => /\ resp.http = 200
       /\ Len(calls) = 1
       /\ calls[1].texts = req.texts
       /\ Len(resp.results) = Len(req.texts)
       /\ \A i \in 1..Len(req.texts) :
            /\ resp.results[i].dense = calls[1].out.dense_vecs[i]
            /\ resp.results[i].sparse.null =
                 ~(req.return_sparse /\ calls[1].out.has_lex)
            /\ ~resp.results[i].sparse.null =>
                 \A kv \in resp.results[i].sparse.items :
                    LET raw == calls[1].out.lexical_weights[i] IN
                    \/ raw.kind = "dict" /\ kv \in raw.items
                    \/ raw.kind = "ndarray" /\ raw.w[kv[1] + 1] = kv[2]

\* 256 texts embedded
C5_Witness ==
    /\ op = "embed"
    /\ resp.http = 200
    /\ Len(req.texts) = MAX_TEXTS
    /\ Len(resp.results) = MAX_TEXTS

\* C6: the ranked list of an accepted /rerank request has min(top_k, n)
\* entries, whose original_index values are distinct and lie in 0..n-1
C6_RankedLength ==
    (op = "rerank" /\ resp.http = 200) =>
        LET n == Len(req.candidates)
            ranked == resp.ranked
        IN  /\ Len(ranked) = Min(req.top_k, n)
            /\ \A i \in 1..Len(ranked) : ranked[i].original_index \in 0..(n - 1)
            /\ \A i \in 1..Len(ranked), j \in 1..Len(ranked) :
                 i # j => ranked[i].original_index # ranked[j].original_index

\* three candidates cut to the two asked for
C6_Witness ==
    /\ op = "rerank"
    /\ resp.http = 200
    /\ Len(req.candidates) = 3
    /\ req.top_k = 2
    /\ Len(resp.ranked) = 2

\* entry a comes before entry b: higher score, or the same score and the
\* smaller original index
Before(sa, ia, sb, ib) == sa > sb \/ (sa = sb /\ ia < ib)

\* C7: the ranked list carries each candidate's own score, is ordered by score
\* descending with the smaller original index first among equal scores, and
\* every candidate left out comes after every entry kept in that order
C7_RankedOrder ==
    (op = "rerank" /\ resp.http = 200) =>
        LET n == Len(req.candidates)
            ranked == resp.ranked
            kept == { ranked[i].original_index : i \in 1..Len(ranked) }
        IN  /\ \A i \in 1..Len(ranked) :
                 /\ ranked[i].score = calls[ranked[i].original_index + 1].score
                 /\ ranked[i].text = req.candidates[ranked[i].original_index + 1].text
            /\ \A i \in 1..Len(ranked), j \in 1..Len(ranked) :
                 i < j => Before(ranked[i].score, ranked[i].original_index,
                                 ranked[j].score, ranked[j].original_index)
            /\ \A c \in (0..(n - 1)) \ kept : \A i \in 1..Len(ranked) :
                 Before(ranked[i].score, ranked[i].original_index,
                        calls[c + 1].score, c)

\* two entries with the same score kept, a third candidate with that score
\* left out
C7_Witness ==
    /\ op = "rerank"
    /\ resp.http = 200
    /\ Len(req.candidates) = 3
    /\ Len(resp.ranked) = 2
    /\ resp.ranked[1].score = resp.ranked[2].score
    /\ \A k \in 1..3 : calls[k].score = resp.ranked[1].score

\* C8: every endpoint of the visual server answers 503 while the model is not
\* set; with the model set, an image payload that does not decode is answered
\* 400 with the decoding detail; neither case runs a forward pass
C8_VisualErrors ==
    (op \in {"embed-image", "embed-cross-modal", "embed-text"}) =>
        /\ model = NoModel => (resp.http = 503 /\ calls = <<>>)
        /\ (/\ model # NoModel
            /\ op \in {"embed-image", "embed-cross-modal"}
            /\ req.image.kind # "image")
           => (resp.http = 400 /\ resp.detail = "Invalid image" /\ calls = <<>>)

\* an undecodable image sent to the loaded visual server
C8_Witness ==
    /\ op = "embed-image"
    /\ model # NoModel
    /\ req.image.kind = "bad_base64"
    /\ resp.http = 400

\* C9: every sparse mapping of an /embed result has only non-zero weights,
\* whether the model gave a mapping or a dense weight array, and from a dense
\* array it has every non-zero position
C9_SparseNonZero ==
    (op = "embed" /\ resp.http = 200) =>
        \A i \in 1..Len(resp.results) :
           ~resp.results[i].sparse.null =>
              LET raw == calls[1].out.lexical_weights[i]
                  items == resp.results[i].sparse.items
              IN  /\ \A kv \in items : kv[2] # 0
                  /\ raw.kind = "ndarray" =>
                       \A j \in 1..Len(raw.w) :
                          raw.w[j] # 0 => <<j - 1, raw.w[j]>> \in items

\* a dense weight array with zeros turned into a mapping
C9_Witness ==
    /\ op = "embed"
    /\ resp.http = 200
    /\ \E i \in 1..Len(resp.results) :
         /\ ~resp.results[i].sparse.null
         /\ calls[1].out.lexical_weights[i].kind = "ndarray"
         /\ \E j \in 1..Len(calls[1].out.lexical_weights[i].w) :
              calls[1].out.lexical_weights[i].w[j] = 0
         /\ resp.results[i].sparse.items # {}

\* C10: when the tokenizer or the forward pass raises for a pair of a /rerank
\* request, the request ends in an internal error without a ranked list, and
\* the failing pair is the last one passed to the model
C10_PairFailureFailsRequest ==
    (op = "rerank" /\ \E k \in 1..Len(calls) : calls[k].raised) =>
        /\ resp.http = 500
        /\ "ranked" \notin DOMAIN resp
        /\ calls[Len(calls)].raised
        /\ \A k \in 1..(Len(calls) - 1) : ~calls[k].raised
        /\ \A k \in 1..Len(calls) : calls[k].text = req.candidates[k].text

\* the second of three pairs raising
C10_Witness ==
    /\ op = "rerank"
    /\ Len(req.candidates) = 3
    /\ Len(calls) = 2
    /\ calls[2].raised
    /\ resp.http = 500

====
